---- MODULE Spec2Model ----
(***************************************************************************)
(* IRAS callback receiver (src/main.py): the validators, the five callback *)
(* handlers, the mock generators and the bounded in-memory callback log.   *)
(*                                                                         *)
(* Strings whose characters matter (status, formType, UEN, taxPeriod) are  *)
(* sequences of one-character strings.  "LF" is the newline character,     *)
(* "u0663" and "uFF12" are the non-ASCII decimal digits ARABIC-INDIC DIGIT *)
(* THREE and FULLWIDTH DIGIT TWO, "u017F" is LATIN SMALL LETTER LONG S.    *)
(***************************************************************************)
EXTENDS Integers, Sequences, FiniteSets, TLC

VARIABLES callback_logs, accepted, now, ops, last, v_fn, v_str, v_data, v_names, v_out,
          threads

vars ==
  <<callback_logs, accepted, now, ops, last, v_fn, v_str, v_data, v_names, v_out,
    threads>>

store_vars == <<callback_logs, accepted, now, ops, last>>

validator_vars == <<v_fn, v_str, v_data, v_names, v_out>>

MAX_LOGS == 200

(***************************************************************************)
(* Bounds of the model.                                                    *)
(***************************************************************************)
MaxOps == 2

MinDigits == 6

MaxDigits == 10

MaxTail == 2

NumIds == 2

NumThreads == 3

(***************************************************************************)
(* Characters.                                                             *)
(***************************************************************************)
UpperSeq ==
  <<"A","B","C","D","E","F","G","H","I","J","K","L","M",
    "N","O","P","Q","R","S","T","U","V","W","X","Y","Z">>

LowerSeq ==
  <<"a","b","c","d","e","f","g","h","i","j","k","l","m",
    "n","o","p","q","r","s","t","u","v","w","x","y","z">>

AsciiUpper == {UpperSeq[i] : i \in 1..26}

AsciiLower == {LowerSeq[i] : i \in 1..26}

AsciiDigits == {"0","1","2","3","4","5","6","7","8","9"}

Whitespace == {"LF", " "}

\* the decimal value of a character of Unicode category Nd
DigitValue(c) ==
  CASE c = "0" -> 0 [] c = "1" -> 1 [] c = "2" -> 2 [] c = "3" -> 3
    [] c = "4" -> 4 [] c = "5" -> 5 [] c = "6" -> 6 [] c = "7" -> 7
    [] c = "8" -> 8 [] c = "9" -> 9 [] c = "u0663" -> 3 [] c = "uFF12" -> 2
    [] OTHER -> 0

\* \d of a str pattern: any Unicode decimal digit
ReDigit(c) == c \in AsciiDigits \cup {"u0663", "uFF12"}

\* [A-Z]
ReUpperAZ(c) == c \in AsciiUpper

\* str.upper(), character by character
UpperChar(c) ==
  IF c \in AsciiLower THEN UpperSeq[CHOOSE i \in 1..26 : LowerSeq[i] = c]
  ELSE IF c = "u017F" THEN "S"
  ELSE c

\* str.lower(), character by character
LowerChar(c) ==
  IF c \in AsciiUpper THEN LowerSeq[CHOOSE i \in 1..26 : UpperSeq[i] = c]
  ELSE c

PyUpper(s) == [i \in 1..Len(s) |-> UpperChar(s[i])]

PyLower(s) == [i \in 1..Len(s) |-> LowerChar(s[i])]

\* re '$' without MULTILINE: at the end of the string, or just before a
\* newline that is the last character
ReDollarAt(s, i) == i = Len(s) + 1 \/ (i = Len(s) /\ s[i] = "LF")

\* re.match(r'^\d{n}[A-Z]$', s)
ReMatchDigitsLetter(s, n) ==
  /\ Len(s) >= n + 1
  /\ \A i \in 1..n : ReDigit(s[i])
  /\ ReUpperAZ(s[n + 1])
  /\ ReDollarAt(s, n + 2)

\* re.match(r'^\d{n}$', s)
ReMatchDigits(s, n) ==
  /\ Len(s) >= n
  /\ \A i \in 1..n : ReDigit(s[i])
  /\ ReDollarAt(s, n + 1)

RECURSIVE StripLeft(_)
StripLeft(s) ==
  IF s # <<>> /\ Head(s) \in Whitespace THEN StripLeft(Tail(s)) ELSE s

RECURSIVE StripRight(_)
StripRight(s) ==
  IF s # <<>> /\ s[Len(s)] \in Whitespace
  THEN StripRight(SubSeq(s, 1, Len(s) - 1)) ELSE s

RECURSIVE DigitsValue(_)
DigitsValue(s) ==
  IF s = <<>> THEN 0
  ELSE 10 * DigitsValue(SubSeq(s, 1, Len(s) - 1)) + DigitValue(s[Len(s)])

\* int(s) for a str: surrounding whitespace is stripped, an optional sign,
\* then decimal digits (of any script); anything else is a ValueError
AllDigits(s) == \A i \in 1..Len(s) : ReDigit(s[i])

\* the sign of a stripped numeral, and the numeral without it
Minus(t) == t # <<>> /\ Head(t) = "-"

Unsigned(t) == IF t # <<>> /\ Head(t) \in {"+", "-"} THEN Tail(t) ELSE t

\* int of the stripped string t whose digits are d
IntOfDigits(t, d) ==
  IF d # <<>> /\ AllDigits(d)
  THEN [ok |-> TRUE, n |-> IF Minus(t) THEN 0 - DigitsValue(d) ELSE DigitsValue(d)]
  ELSE [ok |-> FALSE, n |-> 0]

PyIntStr(s) ==
  IntOfDigits(StripRight(StripLeft(s)), Unsigned(StripRight(StripLeft(s))))

(***************************************************************************)
(* JSON values as Python sees them after request.get_json().  Every value  *)
(* has the same shape: t is the type, s the characters of a str (or the    *)
(* element types of a list, or the keys of a dict), n the number (floats   *)
(* in hundredths).                                                         *)
(***************************************************************************)
JV(t, s, n) == [t |-> t, s |-> s, n |-> n]

Absent == JV("absent", <<>>, 0)

Null == JV("null", <<>>, 0)

JStr(s) == JV("str", s, 0)

JInt(n) == JV("int", <<>>, n)

BigInt == JV("bigint", <<>>, 0)

JFloat(h) == JV("float", <<>>, h)

NaN == JV("nan", <<>>, 0)

Inf == JV("inf", <<>>, 0)

NegInf == JV("ninf", <<>>, 0)

JBool(b) == JV("bool", <<>>, IF b THEN 1 ELSE 0)

JList(elems) == JV("list", elems, 0)

JDict(keys) == JV("dict", keys, 0)

\* dict.get(key): a key that is not there reads as None
Get(data, f) == IF data[f].t = "absent" THEN Null ELSE data[f]

\* Python truth value
Truthy(v) ==
  CASE v.t \in {"absent", "null"} -> FALSE
    [] v.t \in {"str", "list", "dict"} -> v.s # <<>>
    [] v.t \in {"int", "float", "bool"} -> v.n # 0
    [] OTHER -> TRUE

(***************************************************************************)
(* Results of a call: a value, a ValidationError, or another exception.    *)
(***************************************************************************)
\* a message: its fixed wording, the field names it lists, and the status
\* it interpolates
Msg(text, fields) == [text |-> text, fields |-> fields, arg |-> <<>>]

StatusMsg(text, status) == [text |-> text, fields |-> <<>>, arg |-> status]

NoMsg == Msg("", <<>>)

Ok(v) == [k |-> "ok", v |-> v, m |-> NoMsg]

VErr(text) == [k |-> "verr", v |-> Null, m |-> Msg(text, <<>>)]

Exc(name) == [k |-> "exc", v |-> Null, m |-> Msg(name, <<>>)]

NoResult == [k |-> "none", v |-> Null, m |-> NoMsg]

(***************************************************************************)
(* class CallbackValidator                                                 *)
(***************************************************************************)
RECURSIVE SelectMissing(_, _)
SelectMissing(data, fields) ==
  IF fields = <<>> THEN <<>>
  ELSE IF ~Truthy(Get(data, Head(fields)))
       THEN <<Head(fields)>> \o SelectMissing(data, Tail(fields))
       ELSE SelectMissing(data, Tail(fields))

validate_required_fields(data, required_fields) ==
  LET missing_fields == SelectMissing(data, required_fields)
  IN  IF missing_fields # <<>>
      THEN [k |-> "verr", v |-> Null,
            m |-> Msg("Missing required fields: ", missing_fields)]
      ELSE Ok(Null)

allowed_statuses ==
  { <<"S","U","C","C","E","S","S">>, <<"F","A","I","L","E","D">>,
    <<"P","R","O","C","E","S","S","I","N","G">>, <<"P","E","N","D","I","N","G">>,
    <<"R","E","J","E","C","T","E","D">>, <<"C","A","N","C","E","L","L","E","D">> }

\* validate_submission_status returning its argument instead of status_upper
validate_submission_status_as_given(status) ==
  IF ~Truthy(status) THEN VErr("submissionStatus is required")
  ELSE IF status.t # "str" THEN Exc("AttributeError")
  ELSE IF PyUpper(status.s) \notin allowed_statuses
       THEN VErr("Invalid status. Must be one of: SUCCESS, FAILED, PROCESSING, PENDING, REJECTED, CANCELLED")
       ELSE Ok(status)

validate_submission_status(status) ==
  IF ~Truthy(status) THEN VErr("submissionStatus is required")
  ELSE IF status.t # "str" THEN Exc("AttributeError")
  ELSE IF PyUpper(status.s) \notin allowed_statuses
       THEN VErr("Invalid status. Must be one of: SUCCESS, FAILED, PROCESSING, PENDING, REJECTED, CANCELLED")
       ELSE Ok(JStr(PyUpper(status.s)))

validate_uen(uen) ==
  IF ~Truthy(uen) THEN VErr("companyUEN is required")
  ELSE IF uen.t # "str" THEN Exc("TypeError")
  ELSE IF ~(ReMatchDigitsLetter(uen.s, 8) \/ ReMatchDigitsLetter(uen.s, 9))
       THEN VErr("Invalid UEN format. Expected format: 12345678A or 123456789A")
       ELSE Ok(uen)

\* validate_form_type without the upper(): f5 and f8 are rejected
validate_form_type_exact(form_type) ==
  IF ~Truthy(form_type) THEN VErr("formType is required")
  ELSE IF form_type.t # "str" THEN Exc("AttributeError")
  ELSE IF form_type.s \notin { <<"F","5">>, <<"F","8">> }
       THEN VErr("Invalid formType. Must be F5 or F8")
       ELSE Ok(form_type)

validate_form_type(form_type) ==
  IF ~Truthy(form_type) THEN VErr("formType is required")
  ELSE IF form_type.t # "str" THEN Exc("AttributeError")
  ELSE IF PyUpper(form_type.s) \notin { <<"F","5">>, <<"F","8">> }
       THEN VErr("Invalid formType. Must be F5 or F8")
       ELSE Ok(JStr(PyUpper(form_type.s)))

\* the try block of validate_tax_period, year and month being the results
\* of int(tax_period[:4]) and int(tax_period[4:])
validate_year_month(tax_period, year, month) ==
  IF ~year.ok \/ ~month.ok THEN VErr("Invalid taxPeriod format")
  ELSE IF year.n < 2000 \/ year.n > 2100 THEN VErr("Invalid year in taxPeriod")
  ELSE IF month.n < 1 \/ month.n > 12 THEN VErr("Invalid month in taxPeriod")
  ELSE Ok(tax_period)

validate_tax_period(tax_period) ==
  IF ~Truthy(tax_period) THEN VErr("taxPeriod is required")
  ELSE IF tax_period.t # "str" THEN Exc("TypeError")
  ELSE IF ~ReMatchDigits(tax_period.s, 6)
       THEN VErr("Invalid taxPeriod format. Expected format: YYYYMM (e.g., 202412)")
       ELSE validate_year_month(tax_period,
                                PyIntStr(SubSeq(tax_period.s, 1, 4)),
                                PyIntStr(SubSeq(tax_period.s, 5, Len(tax_period.s))))

(***************************************************************************)
(* Python conversions used by the optional numeric fields.                 *)
(***************************************************************************)
Conv(k, v) == [k |-> k, v |-> v]

\* float(s) for a str with at most two decimals: whitespace stripped, an
\* optional sign, then nan, inf, infinity, or digits with an optional point
FloatMagnitude(ip, fp) ==
  100 * DigitsValue(ip)
    + (IF Len(fp) = 0 THEN 0
       ELSE IF Len(fp) = 1 THEN 10 * DigitValue(fp[1])
       ELSE 10 * DigitValue(fp[1]) + DigitValue(fp[2]))

\* the digits ip before and fp after the point, of which there are points
FloatOfDigits(ip, fp, points, neg) ==
  IF /\ points <= 1
     /\ AllDigits(ip) /\ AllDigits(fp)
     /\ Len(ip) + Len(fp) > 0
     /\ Len(fp) <= 2
  THEN Conv("ok", JFloat(IF neg THEN 0 - FloatMagnitude(ip, fp)
                         ELSE FloatMagnitude(ip, fp)))
  ELSE Conv("ValueError", Null)

\* b split at its first point, dots being where its points are
FloatOfPoints(b, dots, neg) ==
  LET p == IF dots = {} THEN Len(b) + 1 ELSE CHOOSE i \in dots : TRUE
  IN  FloatOfDigits(SubSeq(b, 1, p - 1), SubSeq(b, p + 1, Len(b)),
                    Cardinality(dots), neg)

\* the numeral b after the sign
FloatOfUnsigned(b, neg) ==
  IF PyLower(b) = <<"n","a","n">> THEN Conv("ok", NaN)
  ELSE IF PyLower(b) \in { <<"i","n","f">>, <<"i","n","f","i","n","i","t","y">> }
       THEN Conv("ok", IF neg THEN NegInf ELSE Inf)
       ELSE FloatOfPoints(b, {i \in 1..Len(b) : b[i] = "."}, neg)

PyFloatStr(s) ==
  FloatOfUnsigned(Unsigned(StripRight(StripLeft(s))), Minus(StripRight(StripLeft(s))))

\* float(x)
PyFloat(x) ==
  CASE x.t \in {"int", "bool"} -> Conv("ok", JFloat(100 * x.n))
    [] x.t \in {"float", "nan", "inf", "ninf"} -> Conv("ok", x)
    [] x.t = "bigint" -> Conv("OverflowError", Null)
    [] x.t = "str" -> PyFloatStr(x.s)
    [] OTHER -> Conv("TypeError", Null)

\* int(x): a float is truncated towards zero
PyInt(x) ==
  CASE x.t \in {"int", "bool"} -> Conv("ok", JInt(x.n))
    [] x.t = "bigint" -> Conv("ok", x)
    [] x.t = "float" ->
         Conv("ok", JInt(IF x.n >= 0 THEN x.n \div 100 ELSE 0 - ((0 - x.n) \div 100)))
    [] x.t = "nan" -> Conv("ValueError", Null)
    [] x.t \in {"inf", "ninf"} -> Conv("OverflowError", Null)
    [] x.t = "str" ->
         LET r == PyIntStr(x.s)
         IN  IF r.ok THEN Conv("ok", JInt(r.n)) ELSE Conv("ValueError", Null)
    [] OTHER -> Conv("TypeError", Null)

\* x < 0
Negative(x) == (x.t \in {"int", "float"} /\ x.n < 0) \/ x.t = "ninf"

IsNone(x) == x.t \in {"absent", "null"}

\* the inline check of an optional amount:
\*   if v is not None:
\*       try: v = float(v); if v < 0: raise ValidationError(negative)
\*       except (ValueError, TypeError): raise ValidationError(invalid)
\* c is the outcome of the conversion
optional_number(c, negative, invalid) ==
  IF c.k \in {"ValueError", "TypeError"} THEN VErr(invalid)
  ELSE IF c.k # "ok" THEN Exc(c.k)
  ELSE IF Negative(c.v) THEN VErr(negative)
  ELSE Ok(c.v)

optional_float(raw, negative, invalid) ==
  IF IsNone(raw) THEN Ok(Null)
  ELSE optional_number(PyFloat(raw), negative, invalid)

\* the inline check of an optional count (int instead of float)
optional_int(raw, negative, invalid) ==
  IF IsNone(raw) THEN Ok(Null)
  ELSE optional_number(PyInt(raw), negative, invalid)

\* ', '.join(x): x must be an iterable of str
Joinable(x) ==
  CASE x.t \in {"str", "dict"} -> TRUE
    [] x.t = "list" -> \A i \in 1..Len(x.s) : x.s[i] = "str"
    [] OTHER -> FALSE

(***************************************************************************)
(* Requests.  A request has a Content-Type that is JSON or not, a body     *)
(* that is a JSON object, another JSON value, the JSON null, or not JSON,  *)
(* and, for an object, the value of every key (Absent when not there).     *)
(***************************************************************************)
AllFields ==
  {"submissionId", "submissionStatus", "formType", "submissionDateTime",
   "companyUEN", "taxPeriod", "acknowledgementNumber", "totalTaxAmount",
   "errors", "formVersion", "filingType", "effectiveDate", "recordType",
   "recordPeriod", "totalRecords", "totalCommissionAmount", "donationType",
   "donationPeriod", "totalDonations", "totalDonationAmount", "documentType",
   "stampDuty", "stampCertificateNumber"}

EmptyDict == [f \in AllFields |-> Absent]

\* a request payload: the keys of d, everything else absent
DictOf(d) == [f \in AllFields |-> IF f \in DOMAIN d THEN d[f] ELSE Absent]

validate_json_payload(req) ==
  IF ~req.is_json THEN VErr("Content-Type must be application/json")
  ELSE IF req.body = "malformed" THEN VErr("Invalid JSON payload: 400 Bad Request")
  ELSE IF req.body = "null"
       THEN VErr("Invalid JSON payload: Request body must contain valid JSON")
       ELSE Ok(Null)

\* the first call, in the order of the code, that does not return normally
RECURSIVE FirstFailure(_)
FirstFailure(results) ==
  IF results = <<>> THEN Ok(Null)
  ELSE IF Head(results).k # "ok" THEN Head(results)
  ELSE FirstFailure(Tail(results))

\* data.get('errors', []): the default only replaces a key that is not there
GetErrors(data) == IF data["errors"].t = "absent" THEN JList(<<>>) ELSE data["errors"]

\* what a handler did: returned normally (k = "ok"), raised ValidationError
\* ("verr") or raised something else ("exc"); whether log_callback ran; and
\* what it was called with
Outcome(k, m, logged, endpoint, callback_data, submission_id) ==
  [k |-> k, m |-> m, logged |-> logged, endpoint |-> endpoint,
   callback_data |-> callback_data, submission_id |-> submission_id]

\* no callback_data was built when a handler raises before log_callback
NoData == [none |-> Null]

\* a handler that checks its fields after log_callback: a ValidationError
\* leaves the entry behind
RaisedAfterLog(r, submission_id) ==
  Outcome(r.k, r.m, r.k = "verr", "GST-RETURN", NoData, submission_id)

Raised(r, submission_id) == Outcome(r.k, r.m, FALSE, "", NoData, submission_id)

SUCCESS == <<"S","U","C","C","E","S","S">>

FAILED == <<"F","A","I","L","E","D">>

\* the status-dependent part of a handler, which runs after log_callback:
\* the FAILED branch joins the errors for the log line
AfterLog(endpoint, callback_data, submission_id, status, errors, ok_text, failed_text, other_text) ==
  IF status = SUCCESS
  THEN Outcome("ok", Msg(ok_text, <<>>), TRUE, endpoint, callback_data, submission_id)
  ELSE IF status = FAILED
  THEN IF Truthy(errors) /\ ~Joinable(errors)
       THEN Outcome("exc", Msg("TypeError", <<>>), TRUE, endpoint, callback_data, submission_id)
       ELSE Outcome("ok", Msg(failed_text, <<>>), TRUE, endpoint, callback_data, submission_id)
  ELSE Outcome("ok", StatusMsg(other_text, PyLower(status)), TRUE, endpoint,
               callback_data, submission_id)

(***************************************************************************)
(* The five callback handlers, up to the response: validate, normalise,    *)
(* log_callback, then the status-dependent message.                        *)
(***************************************************************************)
gst_required ==
  <<"submissionId", "submissionStatus", "formType", "submissionDateTime",
    "companyUEN", "taxPeriod">>

form_cs_required ==
  <<"submissionId", "submissionStatus", "submissionDateTime", "companyUEN",
    "formVersion", "filingType">>

commission_required ==
  <<"submissionId", "submissionStatus", "submissionDateTime", "companyUEN",
    "recordType", "recordPeriod">>

donation_required ==
  <<"submissionId", "submissionStatus", "submissionDateTime", "companyUEN",
    "donationType", "donationPeriod">>

e_stamping_required ==
  <<"submissionId", "submissionStatus", "submissionDateTime", "companyUEN",
    "documentType">>

\* the body of gst_return_callback, given what its validation calls returned
gst_return_steps(req, required, submission_status, form_type, company_uen, tax_period, total_tax) ==
  LET json == validate_json_payload(req)
      data == req.data
      submission_id == data["submissionId"]
      failure == FirstFailure(<<submission_status, form_type, company_uen,
                                tax_period, total_tax>>)
      callback_data ==
        [submissionId |-> submission_id,
         submissionStatus |-> submission_status.v,
         formType |-> form_type.v,
         submissionDateTime |-> data["submissionDateTime"],
         companyUEN |-> company_uen.v,
         taxPeriod |-> tax_period.v,
         acknowledgementNumber |-> Get(data, "acknowledgementNumber"),
         totalTaxAmount |-> total_tax.v,
         errors |-> GetErrors(data)]
  IN  IF json.k # "ok" THEN Raised(json, Null)
      ELSE IF req.body # "object" THEN Raised(Exc("AttributeError"), Null)
      ELSE IF required.k # "ok" THEN Raised(required, Null)
      ELSE IF failure.k # "ok" THEN Raised(failure, submission_id)
      ELSE AfterLog("GST-RETURN", callback_data, submission_id,
                    submission_status.v.s, GetErrors(data),
                    "GST {form_type} submission for period {tax_period} processed successfully",
                    "GST {form_type} submission for period {tax_period} failed",
                    "GST {form_type} submission for period {tax_period} is ")

gst_return_callback(req) ==
  gst_return_steps(req,
    validate_required_fields(req.data, gst_required),
    validate_submission_status(req.data["submissionStatus"]),
    validate_form_type(req.data["formType"]),
    validate_uen(req.data["companyUEN"]),
    validate_tax_period(req.data["taxPeriod"]),
    optional_float(Get(req.data, "totalTaxAmount"),
                   "totalTaxAmount must be non-negative",
                   "totalTaxAmount must be a valid number"))

\* the body of form_cs_callback, given what its validation calls returned
form_cs_steps(req, required, submission_status, company_uen) ==
  LET json == validate_json_payload(req)
      data == req.data
      submission_id == data["submissionId"]
      failure == FirstFailure(<<submission_status, company_uen>>)
      callback_data ==
        [submissionId |-> submission_id,
         submissionStatus |-> submission_status.v,
         submissionDateTime |-> data["submissionDateTime"],
         companyUEN |-> company_uen.v,
         formVersion |-> data["formVersion"],
         filingType |-> data["filingType"],
         effectiveDate |-> Get(data, "effectiveDate"),
         acknowledgementNumber |-> Get(data, "acknowledgementNumber"),
         errors |-> GetErrors(data)]
  IN  IF json.k # "ok" THEN Raised(json, Null)
      ELSE IF req.body # "object" THEN Raised(Exc("AttributeError"), Null)
      ELSE IF required.k # "ok" THEN Raised(required, Null)
      ELSE IF failure.k # "ok" THEN Raised(failure, submission_id)
      ELSE AfterLog("FORM-CS", callback_data, submission_id,
                    submission_status.v.s, GetErrors(data),
                    "Form CS ({filingType}) submission processed successfully",
                    "Form CS ({filingType}) submission failed",
                    "Form CS ({filingType}) submission is ")

form_cs_callback(req) ==
  form_cs_steps(req,
    validate_required_fields(req.data, form_cs_required),
    validate_submission_status(req.data["submissionStatus"]),
    validate_uen(req.data["companyUEN"]))

\* the body of commission_records_callback, given what its validation calls returned
commission_records_steps(req, required, submission_status, company_uen, total_records, total_commission) ==
  LET json == validate_json_payload(req)
      data == req.data
      submission_id == data["submissionId"]
      failure == FirstFailure(<<submission_status, company_uen, total_records,
                                total_commission>>)
      callback_data ==
        [submissionId |-> submission_id,
         submissionStatus |-> submission_status.v,
         submissionDateTime |-> data["submissionDateTime"],
         companyUEN |-> company_uen.v,
         recordType |-> data["recordType"],
         recordPeriod |-> data["recordPeriod"],
         totalRecords |-> total_records.v,
         totalCommissionAmount |-> total_commission.v,
         acknowledgementNumber |-> Get(data, "acknowledgementNumber"),
         errors |-> GetErrors(data)]
  IN  IF json.k # "ok" THEN Raised(json, Null)
      ELSE IF req.body # "object" THEN Raised(Exc("AttributeError"), Null)
      ELSE IF required.k # "ok" THEN Raised(required, Null)
      ELSE IF failure.k # "ok" THEN Raised(failure, submission_id)
      ELSE AfterLog("COMMISSION-RECORDS", callback_data, submission_id,
                    submission_status.v.s, GetErrors(data),
                    "Commission records ({recordType}) for {recordPeriod} processed successfully",
                    "Commission records ({recordType}) submission failed",
                    "Commission records ({recordType}) submission is ")

commission_records_callback(req) ==
  commission_records_steps(req,
    validate_required_fields(req.data, commission_required),
    validate_submission_status(req.data["submissionStatus"]),
    validate_uen(req.data["companyUEN"]),
    optional_int(Get(req.data, "totalRecords"),
                 "totalRecords must be non-negative",
                 "totalRecords must be a valid integer"),
    optional_float(Get(req.data, "totalCommissionAmount"),
                   "totalCommissionAmount must be non-negative",
                   "totalCommissionAmount must be a valid number"))

\* the body of donation_records_callback, given what its validation calls returned
donation_records_steps(req, required, submission_status, company_uen, total_donations, total_amount) ==
  LET json == validate_json_payload(req)
      data == req.data
      submission_id == data["submissionId"]
      failure == FirstFailure(<<submission_status, company_uen, total_donations,
                                total_amount>>)
      callback_data ==
        [submissionId |-> submission_id,
         submissionStatus |-> submission_status.v,
         submissionDateTime |-> data["submissionDateTime"],
         companyUEN |-> company_uen.v,
         donationType |-> data["donationType"],
         donationPeriod |-> data["donationPeriod"],
         totalDonations |-> total_donations.v,
         totalDonationAmount |-> total_amount.v,
         acknowledgementNumber |-> Get(data, "acknowledgementNumber"),
         errors |-> GetErrors(data)]
  IN  IF json.k # "ok" THEN Raised(json, Null)
      ELSE IF req.body # "object" THEN Raised(Exc("AttributeError"), Null)
      ELSE IF required.k # "ok" THEN Raised(required, Null)
      ELSE IF failure.k # "ok" THEN Raised(failure, submission_id)
      ELSE AfterLog("DONATION-RECORDS", callback_data, submission_id,
                    submission_status.v.s, GetErrors(data),
                    "Donation records ({donationType}) for {donationPeriod} processed successfully",
                    "Donation records ({donationType}) submission failed",
                    "Donation records ({donationType}) submission is ")

donation_records_callback(req) ==
  donation_records_steps(req,
    validate_required_fields(req.data, donation_required),
    validate_submission_status(req.data["submissionStatus"]),
    validate_uen(req.data["companyUEN"]),
    optional_int(Get(req.data, "totalDonations"),
                 "totalDonations must be non-negative",
                 "totalDonations must be a valid integer"),
    optional_float(Get(req.data, "totalDonationAmount"),
                   "totalDonationAmount must be non-negative",
                   "totalDonationAmount must be a valid number"))

\* the body of e_stamping_callback, given what its validation calls returned
e_stamping_steps(req, required, submission_status, company_uen, stamp_duty) ==
  LET json == validate_json_payload(req)
      data == req.data
      submission_id == data["submissionId"]
      failure == FirstFailure(<<submission_status, company_uen, stamp_duty>>)
      callback_data ==
        [submissionId |-> submission_id,
         submissionStatus |-> submission_status.v,
         submissionDateTime |-> data["submissionDateTime"],
         companyUEN |-> company_uen.v,
         documentType |-> data["documentType"],
         stampDuty |-> stamp_duty.v,
         stampCertificateNumber |-> Get(data, "stampCertificateNumber"),
         acknowledgementNumber |-> Get(data, "acknowledgementNumber"),
         errors |-> GetErrors(data)]
  IN  IF json.k # "ok" THEN Raised(json, Null)
      ELSE IF req.body # "object" THEN Raised(Exc("AttributeError"), Null)
      ELSE IF required.k # "ok" THEN Raised(required, Null)
      ELSE IF failure.k # "ok" THEN Raised(failure, submission_id)
      ELSE AfterLog("E-STAMPING", callback_data, submission_id,
                    submission_status.v.s, GetErrors(data),
                    "E-stamping for {documentType} processed successfully",
                    "E-stamping for {documentType} submission failed",
                    "E-stamping for {documentType} submission is ")

e_stamping_callback(req) ==
  e_stamping_steps(req,
    validate_required_fields(req.data, e_stamping_required),
    validate_submission_status(req.data["submissionStatus"]),
    validate_uen(req.data["companyUEN"]),
    optional_float(Get(req.data, "stampDuty"),
                   "stampDuty must be non-negative",
                   "stampDuty must be a valid number"))

(***************************************************************************)
(* The callback log and the responses.                                     *)
(***************************************************************************)
UNKNOWN == <<"U","N","K","N","O","W","N">>

\* the dict log_callback builds; request_id is str(uuid.uuid4())[:8] and
\* timestamp is datetime.now()
\* log_callback reading callback_data.get('status', 'UNKNOWN'), a key the
\* payloads do not have
log_entry_status_key(endpoint, callback_data, request_id, timestamp) ==
  [requestId |-> request_id,
   timestamp |-> timestamp,
   endpoint |-> endpoint,
   callback_data |-> callback_data,
   status |-> IF "status" \notin DOMAIN callback_data
              THEN JStr(UNKNOWN) ELSE callback_data["status"]]

log_entry(endpoint, callback_data, request_id, timestamp) ==
  [requestId |-> request_id,
   timestamp |-> timestamp,
   endpoint |-> endpoint,
   callback_data |-> callback_data,
   status |-> IF "submissionStatus" \notin DOMAIN callback_data
              THEN JStr(UNKNOWN) ELSE callback_data["submissionStatus"]]

\* log_callback with the size test off by one: the log grows to MAX_LOGS + 1
log_callback_late_evict(logs, entry) ==
  LET appended == Append(logs, entry)
  IN  IF Len(appended) > MAX_LOGS + 1 THEN Tail(appended) ELSE appended

\* log_callback with pop() for pop(0): the newest entry is removed
log_callback_pop_last(logs, entry) ==
  LET appended == Append(logs, entry)
  IN  IF Len(appended) > MAX_LOGS THEN SubSeq(appended, 1, Len(appended) - 1)
      ELSE appended

\* callback_logs.append(log_entry); if len(callback_logs) > MAX_LOGS: pop(0)
log_callback(logs, entry) ==
  LET appended == Append(logs, entry)
  IN  IF Len(appended) > MAX_LOGS THEN Tail(appended) ELSE appended

NoResp ==
  [code |-> 0, status |-> "", message |-> NoMsg, submissionId |-> Null,
   requestId |-> 0, error_id |-> 0, has_error_detail |-> FALSE,
   error_detail |-> NoMsg, has_field |-> FALSE, total_callbacks |-> 0,
   returned_logs |-> 0, logs |-> <<>>, logs_count |-> 0, logs_cleared |-> 0,
   has_stats |-> FALSE, status_breakdown |-> <<>>, endpoint_breakdown |-> <<>>,
   latest_callback |-> 0, recent_activity |-> <<>>, error |-> NoMsg]

create_success_response(message, submission_id, request_id) ==
  [NoResp EXCEPT !.code = 200, !.status = "received", !.message = message,
                 !.submissionId = submission_id, !.requestId = request_id]

\* error is what was raised: error.k = "verr" for a ValidationError; no
\* ValidationError of this program is built with a field
\* create_error_response answering with str(error) whatever the status code
create_error_response_leaky(error, submission_id, status_code, error_id) ==
  [NoResp EXCEPT !.code = status_code, !.status = "error",
                 !.message = error.m,
                 !.error_id = error_id,
                 !.submissionId = submission_id,
                 !.has_error_detail = (error.k = "verr"),
                 !.error_detail = IF error.k = "verr" THEN error.m ELSE NoMsg]

create_error_response(error, submission_id, status_code, error_id) ==
  [NoResp EXCEPT !.code = status_code, !.status = "error",
                 !.message = IF status_code >= 500
                             THEN Msg("Error processing callback", <<>>)
                             ELSE error.m,
                 !.error_id = error_id,
                 !.submissionId = submission_id,
                 !.has_error_detail = (error.k = "verr"),
                 !.error_detail = IF error.k = "verr" THEN error.m ELSE NoMsg]

\* the try/except of a callback handler around its outcome
callback_response(out, request_id, error_id) ==
  IF out.k = "ok" THEN create_success_response(out.m, out.submission_id, request_id)
  ELSE IF out.k = "verr" THEN create_error_response(out, out.submission_id, 400, error_id)
  ELSE create_error_response(out, out.submission_id, 500, error_id)

\* the body of test_validate_callback, given what its validation calls
\* returned (data.get of validate_required_fields fails on a JSON array);
\* callback_type = request.args.get('type', 'gst-return')
test_validate_steps(req, callback_type, required, base_required, submission_status, form_type, company_uen, tax_period) ==
  IF validate_json_payload(req).k # "ok" THEN validate_json_payload(req)
  ELSE IF callback_type = "gst-return"
  THEN IF req.body # "object" THEN Exc("AttributeError")
       ELSE IF required.k # "ok" THEN required
       ELSE FirstFailure(<<submission_status, form_type, company_uen, tax_period>>)
  ELSE IF callback_type \in {"form-cs", "commission-records", "donation-records", "e-stamping"}
  THEN IF req.body # "object" THEN Exc("AttributeError")
       ELSE IF base_required.k # "ok" THEN base_required
       ELSE FirstFailure(<<submission_status, company_uen>>)
  ELSE Ok(Null)

\* the answer of test_validate_callback: 'valid', 'invalid' with 400 on a
\* ValidationError, create_error_response with 500 on any other exception
test_validate_response(r, error_id) ==
  IF r.k = "ok"
  THEN [NoResp EXCEPT !.code = 200, !.status = "valid",
                      !.message = Msg("Callback data validation passed for {callback_type}", <<>>)]
  ELSE IF r.k = "verr"
  THEN [NoResp EXCEPT !.code = 400, !.status = "invalid",
                      !.message = Msg("Validation failed", <<>>),
                      !.error = r.m, !.has_field = TRUE]
  ELSE create_error_response(r, Null, 500, error_id)

test_validate_callback(req) ==
  test_validate_steps(req, IF req.type = "" THEN "gst-return" ELSE req.type,
    validate_required_fields(req.data, <<"submissionId", "submissionStatus", "formType",
                                         "submissionDateTime", "companyUEN", "taxPeriod">>),
    validate_required_fields(req.data, <<"submissionId", "submissionStatus",
                                         "submissionDateTime", "companyUEN">>),
    validate_submission_status(req.data["submissionStatus"]),
    validate_form_type(req.data["formType"]),
    validate_uen(req.data["companyUEN"]),
    validate_tax_period(req.data["taxPeriod"]))

\* request.args.get('limit', 10, type=int)
limit_arg(req) == IF req.limit.given /\ req.limit.valid THEN req.limit.n ELSE 10

Min(a, b) == IF a < b THEN a ELSE b

Max(a, b) == IF a > b THEN a ELSE b

\* lst[-k:]
SliceLast(lst, k) ==
  LET start == IF 0 - k < 0 THEN Max(Len(lst) - k, 0) ELSE Min(0 - k, Len(lst))
  IN  SubSeq(lst, start + 1, Len(lst))

\* get_callback_logs slicing callback_logs[:limit]: the oldest entries
get_callback_logs_oldest(logs, req) ==
  LET limit == Min(limit_arg(req), 50)
      recent_logs == IF logs # <<>> THEN SubSeq(logs, 1, Min(Max(limit, 0), Len(logs))) ELSE <<>>
  IN  [NoResp EXCEPT !.code = 200, !.total_callbacks = Len(logs),
                     !.returned_logs = Len(recent_logs), !.logs = recent_logs]

\* limit = min(limit, 50); recent_logs = callback_logs[-limit:] if callback_logs else []
get_callback_logs(logs, req) ==
  LET limit == Min(limit_arg(req), 50)
      recent_logs == IF logs # <<>> THEN SliceLast(logs, limit) ELSE <<>>
  IN  [NoResp EXCEPT !.code = 200, !.total_callbacks = Len(logs),
                     !.returned_logs = Len(recent_logs), !.logs = recent_logs]

\* what the loop of get_callback_stats leaves in status_counts (key "status")
\* and endpoint_counts (key "endpoint"): counts[k] = counts.get(k, 0) + 1 for
\* every entry, so a key for each value met and with it the number of entries met
count_by(logs, key) ==
  [k \in {logs[i][key] : i \in DOMAIN logs} |->
     Cardinality({i \in DOMAIN logs : logs[i][key] = k})]

\* one item of recent_activity
activity(log) ==
  [timestamp |-> log.timestamp, endpoint |-> log.endpoint, status |-> log.status,
   submissionId |-> IF "submissionId" \notin DOMAIN log.callback_data
                       \/ log.callback_data["submissionId"].t = "absent"
                    THEN JStr(<<"N/A">>) ELSE log.callback_data["submissionId"]]

\* if not callback_logs: only the message; else the counts, the timestamp of
\* callback_logs[-1] and callback_logs[-10:] condensed
get_callback_stats(logs) ==
  IF logs = <<>>
  THEN [NoResp EXCEPT !.code = 200, !.message = Msg("No callbacks received yet", <<>>)]
  ELSE [NoResp EXCEPT !.code = 200, !.has_stats = TRUE,
                      !.total_callbacks = Len(logs),
                      !.status_breakdown = count_by(logs, "status"),
                      !.endpoint_breakdown = count_by(logs, "endpoint"),
                      !.latest_callback = logs[Len(logs)].timestamp,
                      !.recent_activity =
                         [i \in 1..Len(SliceLast(logs, 10)) |-> activity(SliceLast(logs, 10)[i])]]

(***************************************************************************)
(* Requests the clients send.                                              *)
(***************************************************************************)
NoLimit == [given |-> FALSE, valid |-> FALSE, n |-> 0]

Post(is_json, body, data) ==
  [is_json |-> is_json, body |-> body, data |-> data, limit |-> NoLimit, type |-> ""]

GetReq(limit) ==
  [is_json |-> FALSE, body |-> "", data |-> EmptyDict, limit |-> limit, type |-> ""]

Kinds == {"gst", "form_cs", "commission", "donation", "e_stamping"}

UEN10 == <<"2","0","1","2","3","4","5","6","7","D">>

UEN9 == <<"1","2","3","4","5","6","7","8","A">>

\* the payload of test_mock_gst_callback
mock_gst_data ==
  [submissionId |-> JStr(<<"G","S","T">>),
   submissionStatus |-> JStr(SUCCESS),
   formType |-> JStr(<<"F","5">>),
   submissionDateTime |-> JStr(<<"t">>),
   companyUEN |-> JStr(UEN10),
   taxPeriod |-> JStr(<<"2","0","2","4","1","2">>),
   acknowledgementNumber |-> JStr(<<"A","C","K">>),
   totalTaxAmount |-> JFloat(1500050),
   errors |-> JList(<<>>)]

\* the payload of test_mock_form_cs_callback
mock_form_cs_data ==
  [submissionId |-> JStr(<<"C","S">>),
   submissionStatus |-> JStr(SUCCESS),
   submissionDateTime |-> JStr(<<"t">>),
   companyUEN |-> JStr(UEN10),
   formVersion |-> JStr(<<"2","0","2","5",".","1">>),
   filingType |-> JStr(<<"A","N","N","U","A","L">>),
   effectiveDate |-> JStr(<<"d">>),
   acknowledgementNumber |-> JStr(<<"A","C","K">>),
   errors |-> JList(<<>>)]

\* a well-formed payload of each kind
BasePayload(kind) ==
  CASE kind = "gst" -> DictOf(mock_gst_data)
    [] kind = "form_cs" -> DictOf(mock_form_cs_data)
    [] kind = "commission" ->
         DictOf([submissionId |-> JStr(<<"C","R">>),
                 submissionStatus |-> JStr(SUCCESS),
                 submissionDateTime |-> JStr(<<"t">>),
                 companyUEN |-> JStr(UEN9),
                 recordType |-> JStr(<<"r">>),
                 recordPeriod |-> JStr(<<"p">>),
                 totalRecords |-> JInt(3),
                 totalCommissionAmount |-> JFloat(1250)])
    [] kind = "donation" ->
         DictOf([submissionId |-> JStr(<<"D","R">>),
                 submissionStatus |-> JStr(SUCCESS),
                 submissionDateTime |-> JStr(<<"t">>),
                 companyUEN |-> JStr(UEN9),
                 donationType |-> JStr(<<"c">>),
                 donationPeriod |-> JStr(<<"p">>),
                 totalDonations |-> JInt(2),
                 totalDonationAmount |-> JInt(40)])
    [] kind = "e_stamping" ->
         DictOf([submissionId |-> JStr(<<"E","S">>),
                 submissionStatus |-> JStr(SUCCESS),
                 submissionDateTime |-> JStr(<<"t">>),
                 companyUEN |-> JStr(UEN9),
                 documentType |-> JStr(<<"l">>),
                 stampDuty |-> JStr(<<"1","2",".","5">>)])

\* the keys a handler reads
KindFields(kind) ==
  CASE kind = "gst" ->
         {"submissionId", "submissionStatus", "formType", "submissionDateTime",
          "companyUEN", "taxPeriod", "acknowledgementNumber", "totalTaxAmount", "errors"}
    [] kind = "form_cs" ->
         {"submissionId", "submissionStatus", "submissionDateTime", "companyUEN",
          "formVersion", "filingType", "effectiveDate", "acknowledgementNumber", "errors"}
    [] kind = "commission" ->
         {"submissionId", "submissionStatus", "submissionDateTime", "companyUEN",
          "recordType", "recordPeriod", "totalRecords", "totalCommissionAmount",
          "acknowledgementNumber", "errors"}
    [] kind = "donation" ->
         {"submissionId", "submissionStatus", "submissionDateTime", "companyUEN",
          "donationType", "donationPeriod", "totalDonations", "totalDonationAmount",
          "acknowledgementNumber", "errors"}
    [] kind = "e_stamping" ->
         {"submissionId", "submissionStatus", "submissionDateTime", "companyUEN",
          "documentType", "stampDuty", "stampCertificateNumber",
          "acknowledgementNumber", "errors"}

\* JSON values of every type, falsy and truthy
GenericValues ==
  {Absent, Null, JStr(<<>>), JStr(<<"x">>), JStr(<<"7">>), JStr(<<"-","1">>),
   JStr(<<"1","2",".","5">>), JStr(<<"n","a","n">>), JStr(<<"-","i","n","f">>),
   JInt(0), JInt(5), JInt(-1), JFloat(0), JFloat(150), JFloat(-50),
   JBool(FALSE), JBool(TRUE), NaN, Inf, NegInf, BigInt,
   JList(<<>>), JList(<<"str">>), JList(<<"int">>), JList(<<"str", "int">>),
   JDict(<<>>), JDict(<<"k">>)}

\* the few values used when two keys are changed at once
PairValues == {Absent, JStr(<<>>), JInt(0), JStr(<<"x">>)}

StatusWords ==
  allowed_statuses \cup
  { <<>>, <<"D","O","N","E">>, <<"O","K">>, <<"S","U","C","C","E","S">>,
    <<"S","U","C","C","E","S","S","S">>, <<"S","U","C","C","E","S","S"," ">>,
    <<"F","A","I","L">> }

\* a word in upper case, in lower case, with one letter of the other case,
\* and with a long s for an S
CaseVariants(w) ==
  {w, PyLower(w)} \cup
  {[w EXCEPT ![i] = LowerChar(w[i])] : i \in 1..Len(w)} \cup
  {[PyLower(w) EXCEPT ![i] = w[i]] : i \in 1..Len(w)} \cup
  {[w EXCEPT ![i] = "u017F"] : i \in {j \in 1..Len(w) : w[j] = "S"}}

StatusInputs == UNION {CaseVariants(w) : w \in StatusWords}

StatusValues == {JStr(w) : w \in StatusInputs}

UenValues ==
  {JStr(UEN9), JStr(UEN10), JStr(UEN9 \o <<"LF">>),
   JStr(<<"1","2","3","4","5","6","7","A">>),
   JStr(<<"1","2","3","4","5","6","7","8","a">>),
   JStr(<<"u0663","2","3","4","5","6","7","8","Z">>),
   JStr(UEN10 \o <<"A">>)}

TaxPeriodValues ==
  {JStr(<<"2","0","0","0","0","1">>), JStr(<<"2","1","0","0","1","2">>),
   JStr(<<"2","1","0","1","0","1">>), JStr(<<"1","8","9","9","1","2">>),
   JStr(<<"2","0","2","4","1","3">>), JStr(<<"2","0","2","4","0","0">>),
   JStr(<<"2","0","2","4","1","2","LF">>), JStr(<<"uFF12","0","2","4","1","2">>),
   JStr(<<"2","0","2","4","1">>), JStr(<<"2","0","2","4","-","1">>)}

FormTypeValues ==
  {JStr(<<"F","8">>), JStr(<<"f","5">>), JStr(<<"f","8">>), JStr(<<"F","6">>),
   JStr(<<"F","5","LF">>)}

FieldValues(f) ==
  GenericValues \cup
  (CASE f = "submissionStatus" -> StatusValues
     [] f = "companyUEN" -> UenValues
     [] f = "taxPeriod" -> TaxPeriodValues
     [] f = "formType" -> FormTypeValues
     [] OTHER -> {})

\* the base payload with one key changed, or two keys changed
Payloads(kind) ==
  LET base == BasePayload(kind)
      one == UNION {{[base EXCEPT ![f] = v] : v \in FieldValues(f)} : f \in KindFields(kind)}
      two == UNION {{[base EXCEPT ![f] = v, ![g] = w] : v \in PairValues, w \in PairValues} :
                    <<f, g>> \in {fg \in KindFields(kind) \X KindFields(kind) : fg[1] # fg[2]}}
      failed == {[base EXCEPT !["submissionStatus"] = JStr(FAILED), !["errors"] = e] :
                 e \in GenericValues}
  IN  {base} \cup one \cup two \cup failed

\* requests that are not a JSON object
Envelopes ==
  {Post(FALSE, "object", EmptyDict), Post(TRUE, "malformed", EmptyDict),
   Post(TRUE, "null", EmptyDict), Post(TRUE, "array", EmptyDict)}

AllRequests(kind) == {Post(TRUE, "object", d) : d \in Payloads(kind)} \cup Envelopes

\* a few requests of each kind: accepted and rejected; of the GST kind also
\* accepted and then failing, and not JSON
SomeRequests(kind) ==
  LET base == BasePayload(kind)
  IN  {Post(TRUE, "object", base),
       Post(TRUE, "object", [base EXCEPT !["companyUEN"] = Absent])} \cup
      (IF kind = "gst"
       THEN {Post(TRUE, "object",
                  [base EXCEPT !["submissionStatus"] = JStr(<<"f","a","i","l","e","d">>),
                               !["errors"] = JList(<<"int">>)]),
             Post(FALSE, "object", EmptyDict)}
       ELSE {})

Limits ==
  {NoLimit, [given |-> TRUE, valid |-> FALSE, n |-> 0]} \cup
  {[given |-> TRUE, valid |-> TRUE, n |-> k] : k \in {-500, -5, -1, 0, 1, 10, 50, 51, 500}}

\* str(uuid.uuid4())[:8]
Ids == 1..NumIds

\* log_callback draws a request id, create_error_response an error id; 0
\* stands for the id that is not drawn
RequestIds(out) == IF out.logged THEN Ids ELSE {0}

ErrorIds(out) == IF out.k # "ok" THEN Ids ELSE {0}

(***************************************************************************)
(* The server, one request at a time.  accepted is the history of the      *)
(* entries appended since the last clear; last is the request handled last *)
(* with the response it got and the length of the log before it.           *)
(***************************************************************************)
Last(op, req, resp, logged) ==
  [op |-> op, req |-> req, resp |-> resp, logged |-> logged,
   before |-> Len(callback_logs)]

NoLast ==
  [op |-> "", req |-> GetReq(NoLimit), resp |-> NoResp, logged |-> FALSE, before |-> 0]

\* the request threads of the concurrent server: where each one is in its
\* handler (pc), the id log_callback drew, the status code it answered, the
\* count clear_logs took and the number of entries its clear() removed
Threads == 1..NumThreads

Idle == [pc |-> "idle", request_id |-> 0, code |-> 0, logs_cleared |-> 0, removed |-> 0]

\* entries as the two mock endpoints append them, n requests after start
Prefill(n) ==
  [i \in 1..n |->
     IF i % 2 = 1
     THEN log_entry("GST-RETURN-TEST", mock_gst_data, (i % NumIds) + 1, i)
     ELSE log_entry("FORM-CS-TEST", mock_form_cs_data, (i % NumIds) + 1, i)]

InitStore(sizes) ==
  /\ \E n \in sizes :
       /\ callback_logs = Prefill(n)
       /\ accepted = Prefill(n)
       /\ now = n + 1
  /\ ops = 0
  /\ last = NoLast
  /\ v_fn = ""
  /\ v_str = <<>>
  /\ v_data = EmptyDict
  /\ v_names = <<>>
  /\ v_out = NoResult
  /\ threads = [t \in Threads |-> Idle]

\* the log is empty at start, or one entry short of full
Init == InitStore({0, MAX_LOGS - 1})

\* for a single request: empty, one short of full, and full
InitPayload == InitStore({0, MAX_LOGS - 1, MAX_LOGS})

\* a callback route from the request to the response: the handler ran to the
\* outcome out, and the response carries the ids that uuid4 drew
Callback(op, req, out) ==
  \E request_id \in RequestIds(out), error_id \in ErrorIds(out) :
    LET entry == log_entry(out.endpoint, out.callback_data, request_id, now)
    IN  /\ callback_logs' = IF out.logged THEN log_callback(callback_logs, entry)
                            ELSE callback_logs
        /\ accepted' = IF out.logged THEN Append(accepted, entry) ELSE accepted
        /\ now' = now + 1
        /\ ops' = ops + 1
        /\ last' = Last(op, req, callback_response(out, request_id, error_id), out.logged)
        /\ UNCHANGED <<validator_vars, threads>>

\* the five callback routes, requests being what the clients send
GstReturnCallback(requests) ==
  \E req \in requests : Callback("gst", req, gst_return_callback(req))

FormCsCallback(requests) ==
  \E req \in requests : Callback("form_cs", req, form_cs_callback(req))

CommissionRecordsCallback(requests) ==
  \E req \in requests : Callback("commission", req, commission_records_callback(req))

DonationRecordsCallback(requests) ==
  \E req \in requests : Callback("donation", req, donation_records_callback(req))

EStampingCallback(requests) ==
  \E req \in requests : Callback("e_stamping", req, e_stamping_callback(req))

\* a mock endpoint: log_callback on the mock payload, no validation
MockCallback(op, endpoint, mock_data, text) ==
  \E request_id \in Ids :
    LET entry == log_entry(endpoint, mock_data, request_id, now)
    IN  /\ callback_logs' = log_callback(callback_logs, entry)
        /\ accepted' = Append(accepted, entry)
        /\ now' = now + 1
        /\ ops' = ops + 1
        /\ last' = Last(op, Post(TRUE, "object", DictOf(mock_data)),
                        create_success_response(Msg(text, <<>>),
                                                mock_data["submissionId"], request_id),
                        TRUE)
        /\ UNCHANGED <<validator_vars, threads>>

TestMockGstCallback ==
  MockCallback("mock_gst", "GST-RETURN-TEST", mock_gst_data,
               "Mock GST F5 submission for period 202412 processed successfully")

TestMockFormCsCallback ==
  MockCallback("mock_form_cs", "FORM-CS-TEST", mock_form_cs_data,
               "Form CS (ANNUAL_RETURN) submission processed successfully")

GetCallbackLogs ==
  /\ \E limit \in Limits :
       last' = Last("get_logs", GetReq(limit),
                    get_callback_logs(callback_logs, GetReq(limit)), FALSE)
  /\ now' = now + 1
  /\ ops' = ops + 1
  /\ UNCHANGED <<callback_logs, accepted>>
  /\ UNCHANGED <<validator_vars, threads>>

HealthCheck ==
  /\ last' = Last("health", GetReq(NoLimit),
                  [NoResp EXCEPT !.code = 200, !.status = "healthy",
                                 !.logs_count = Len(callback_logs)],
                  FALSE)
  /\ now' = now + 1
  /\ ops' = ops + 1
  /\ UNCHANGED <<callback_logs, accepted>>
  /\ UNCHANGED <<validator_vars, threads>>

GetCallbackStats ==
  /\ last' = Last("stats", GetReq(NoLimit), get_callback_stats(callback_logs), FALSE)
  /\ now' = now + 1
  /\ ops' = ops + 1
  /\ UNCHANGED <<callback_logs, accepted>>
  /\ UNCHANGED <<validator_vars, threads>>

\* clear_logs taking len(callback_logs) after the clear(): it reports 0
ClearLogsCountAfter ==
  /\ last' = Last("clear_logs", GetReq(NoLimit),
                  [NoResp EXCEPT !.code = 200, !.logs_cleared = 0],
                  FALSE)
  /\ callback_logs' = <<>>
  /\ accepted' = <<>>
  /\ now' = now + 1
  /\ ops' = ops + 1
  /\ UNCHANGED <<validator_vars, threads>>

ClearLogs ==
  /\ last' = Last("clear_logs", GetReq(NoLimit),
                  [NoResp EXCEPT !.code = 200, !.logs_cleared = Len(callback_logs)],
                  FALSE)
  /\ callback_logs' = <<>>
  /\ accepted' = <<>>
  /\ now' = now + 1
  /\ ops' = ops + 1
  /\ UNCHANGED <<validator_vars, threads>>

\* the type argument of /test/validate-callback for each kind of callback
TypeOf ==
  [gst |-> "gst-return", form_cs |-> "form-cs", commission |-> "commission-records",
   donation |-> "donation-records", e_stamping |-> "e-stamping"]

\* POST /test/validate-callback?type=..., nothing is logged
TestValidateCallback(req) ==
  /\ \E error_id \in ErrorIds(test_validate_callback(req)) :
       last' = Last("validate", req,
                    test_validate_response(test_validate_callback(req), error_id), FALSE)
  /\ now' = now + 1
  /\ ops' = ops + 1
  /\ UNCHANGED <<callback_logs, accepted>>
  /\ UNCHANGED <<validator_vars, threads>>

\* not_found_handler and method_not_allowed_handler: a request to no route,
\* or to a route with a method it does not take
ErrorHandler(code, text) ==
  /\ last' = Last("error_handler", GetReq(NoLimit),
                  [NoResp EXCEPT !.code = code, !.status = "error",
                                 !.message = Msg(text, <<>>)],
                  FALSE)
  /\ now' = now + 1
  /\ ops' = ops + 1
  /\ UNCHANGED <<callback_logs, accepted>>
  /\ UNCHANGED <<validator_vars, threads>>

\* one request to the validation endpoint, of each type with the payloads of
\* its kind, without a type and with an unknown one, or to no route at all
NextValidate ==
  \/ /\ ops = 0
     /\ \E kind \in Kinds : \E req \in AllRequests(kind) :
          TestValidateCallback([req EXCEPT !.type = TypeOf[kind]])
  \/ /\ ops = 0
     /\ \E type \in {"", "other"}, req \in SomeRequests("gst") :
          TestValidateCallback([req EXCEPT !.type = type])
  \/ ops = 0 /\ ErrorHandler(404, "Endpoint not found")
  \/ ops = 0 /\ ErrorHandler(405, "Method {request.method} not allowed for this endpoint")

SpecValidate == InitStore({0, 1}) /\ [][NextValidate]_vars

(***************************************************************************)
(* The threaded server: app.run serves each request in a thread of its own *)
(* and no lock guards callback_logs, so a handler runs one access to the   *)
(* list at a time and the threads interleave between the accesses.         *)
(***************************************************************************)

\* the accepted GST callback every posting thread sends
ThreadRequest == Post(TRUE, "object", BasePayload("gst"))

\* the handler's return: the thread is done and its response is the last one sent
Returns(t, op, code, resp, logged) ==
  /\ threads' = [threads EXCEPT ![t] = [@ EXCEPT !.pc = "done", !.code = code]]
  /\ last' = Last(op, ThreadRequest, resp, logged)

\* log_callback, callback_logs.append(log_entry)
LogCallbackAppend(t, out) ==
  /\ threads[t].pc = "idle"
  /\ out.logged
  /\ \E request_id \in Ids :
       /\ callback_logs' =
            Append(callback_logs, log_entry(out.endpoint, out.callback_data, request_id, now))
       /\ accepted' =
            Append(accepted, log_entry(out.endpoint, out.callback_data, request_id, now))
       /\ threads' = [threads EXCEPT ![t] = [@ EXCEPT !.pc = "check", !.request_id = request_id]]
  /\ now' = now + 1
  /\ UNCHANGED <<ops, last, validator_vars>>

\* log_callback, if len(callback_logs) > MAX_LOGS; below the limit the handler
\* goes on to its response
LogCallbackCheck(t, out) ==
  /\ threads[t].pc = "check"
  /\ IF Len(callback_logs) > MAX_LOGS
     THEN /\ threads' = [threads EXCEPT ![t] = [@ EXCEPT !.pc = "pop"]]
          /\ UNCHANGED last
     ELSE Returns(t, "gst", 200, callback_response(out, threads[t].request_id, 0), TRUE)
  /\ UNCHANGED <<callback_logs, accepted, now, ops, validator_vars>>

\* log_callback, callback_logs.pop(0): IndexError on an empty list, which the
\* handler's except Exception turns into the 500 answer
LogCallbackPop(t, out) ==
  /\ threads[t].pc = "pop"
  /\ IF callback_logs = <<>>
     THEN /\ \E error_id \in Ids :
               Returns(t, "gst", 500,
                       create_error_response(Exc("IndexError"), out.submission_id, 500, error_id),
                       TRUE)
          /\ UNCHANGED callback_logs
     ELSE /\ Returns(t, "gst", 200, callback_response(out, threads[t].request_id, 0), TRUE)
          /\ callback_logs' = Tail(callback_logs)
  /\ UNCHANGED <<accepted, now, ops, validator_vars>>

\* clear_logs, logs_cleared = len(callback_logs)
ClearLogsLen(t) ==
  /\ threads[t].pc = "idle"
  /\ threads' = [threads EXCEPT ![t] = [@ EXCEPT !.pc = "clear",
                                                 !.logs_cleared = Len(callback_logs)]]
  /\ UNCHANGED <<store_vars, validator_vars>>

\* clear_logs, callback_logs.clear() and the response with the count taken before
ClearLogsClear(t) ==
  /\ threads[t].pc = "clear"
  /\ callback_logs' = <<>>
  /\ accepted' = <<>>
  /\ threads' = [threads EXCEPT ![t] = [@ EXCEPT !.pc = "done", !.code = 200,
                                                 !.removed = Len(callback_logs)]]
  /\ last' = Last("clear_logs", GetReq(NoLimit),
                  [NoResp EXCEPT !.code = 200, !.logs_cleared = threads[t].logs_cleared],
                  FALSE)
  /\ UNCHANGED <<now, ops, validator_vars>>

\* the requests reach the threads in the order of the thread numbers
Arrived(t) == \A u \in Threads : u < t => threads[u].pc # "idle"

\* NumThreads requests in flight on a full log, callbacks and clears, and one
\* read between their steps
NextConcurrent ==
  \/ \E t \in Threads : Arrived(t) /\ LogCallbackAppend(t, gst_return_callback(ThreadRequest))
  \/ \E t \in Threads : LogCallbackCheck(t, gst_return_callback(ThreadRequest))
  \/ \E t \in Threads : LogCallbackPop(t, gst_return_callback(ThreadRequest))
  \/ \E t \in Threads : Arrived(t) /\ ClearLogsLen(t)
  \/ \E t \in Threads : ClearLogsClear(t)
  \/ ops = 0 /\ HealthCheck
  \/ ops = 0 /\ GetCallbackLogs
  \/ ops = 0 /\ GetCallbackStats

SpecConcurrent == InitStore({MAX_LOGS}) /\ [][NextConcurrent]_vars

\* the clients of Spec send a few requests of each kind, MaxOps in all
Next ==
  \/ ops < MaxOps /\ GstReturnCallback(SomeRequests("gst"))
  \/ ops < MaxOps /\ FormCsCallback(SomeRequests("form_cs"))
  \/ ops < MaxOps /\ CommissionRecordsCallback(SomeRequests("commission"))
  \/ ops < MaxOps /\ DonationRecordsCallback(SomeRequests("donation"))
  \/ ops < MaxOps /\ EStampingCallback(SomeRequests("e_stamping"))
  \/ ops < MaxOps /\ TestMockGstCallback
  \/ ops < MaxOps /\ TestMockFormCsCallback
  \/ ops < MaxOps /\ GetCallbackLogs
  \/ ops < MaxOps /\ HealthCheck
  \/ ops < MaxOps /\ ClearLogs

Spec == Init /\ [][Next]_vars

\* one callback request with any payload, in a log of each size
NextPayload ==
  \/ ops = 0 /\ GstReturnCallback(AllRequests("gst"))
  \/ ops = 0 /\ FormCsCallback(AllRequests("form_cs"))
  \/ ops = 0 /\ CommissionRecordsCallback(AllRequests("commission"))
  \/ ops = 0 /\ DonationRecordsCallback(AllRequests("donation"))
  \/ ops = 0 /\ EStampingCallback(AllRequests("e_stamping"))

SpecPayload == InitPayload /\ [][NextPayload]_vars

\* appends, clears and reads of an empty and of a full log, MaxOps + 1 requests
NextClear ==
  \/ ops <= MaxOps /\ TestMockGstCallback
  \/ ops <= MaxOps /\ ClearLogs
  \/ ops <= MaxOps /\ GetCallbackLogs
  \/ ops <= MaxOps /\ GetCallbackStats

SpecClear == InitStore({0, MAX_LOGS}) /\ [][NextClear]_vars

(***************************************************************************)
(* The validators on their own: an input is drawn, the validator is        *)
(* called once, v_out is what it returned or raised.                       *)
(***************************************************************************)
Digits10 == <<"1","2","3","4","5","6","7","8","9","0">>

\* runs of MinDigits..MaxDigits digits, with at most one character replaced
Runs ==
  UNION {{SubSeq(Digits10, 1, n)} \cup
         {[SubSeq(Digits10, 1, n) EXCEPT ![i] = c] : i \in 1..n,
            c \in {"0", "9", "u0663", "A", "Z", "a", "LF", " "}} :
         n \in MinDigits..MaxDigits}

Tails ==
  UNION {[1..k -> {"A", "Z", "a", "LF", "1", "u0663", " "}] : k \in 0..MaxTail}

UenInputs == {r \o t : r \in Runs, t \in Tails}

Years ==
  {<<"1","8","9","9">>, <<"1","9","9","9">>, <<"2","0","0","0">>, <<"2","0","2","4">>,
   <<"2","0","9","9">>, <<"2","1","0","0">>, <<"2","1","0","1">>, <<"0","0","0","0">>,
   <<"9","9","9","9">>, <<"uFF12","0","2","4">>, <<"2","0","a","4">>, <<"2","0"," ","4">>,
   <<"+","2","0","0">>}

Months ==
  {<<"0","0">>, <<"0","1">>, <<"0","9">>, <<"1","0">>, <<"1","2">>, <<"1","3">>,
   <<"9","9">>, <<"1","uFF12">>, <<"1","a">>, <<" ","1">>, <<"-","1">>, <<"1","LF">>}

TaxPeriodInputs ==
  {y \o m \o t : y \in Years, m \in Months, t \in Tails} \cup
  {SubSeq(y \o m, 1, k) : y \in Years, m \in Months, k \in 0..5}

RequiredLists ==
  {gst_required, form_cs_required, commission_required, donation_required,
   e_stamping_required}

RequiredValues ==
  {Absent, Null, JStr(<<>>), JInt(0), JFloat(0), JBool(FALSE), JList(<<>>),
   JDict(<<>>), JInt(5), JBool(TRUE), JList(<<"str">>), NaN}

SeqRange(q) == {q[i] : i \in 1..Len(q)}

\* the fields of names in S have the value v, the other fields of names w
RequiredData(names, S, v, w) ==
  [f \in AllFields |->
     IF f \in S THEN v ELSE IF f \in SeqRange(names) THEN w ELSE Absent]

InitValidator ==
  /\ threads = [t \in Threads |-> Idle]
  /\ callback_logs = <<>>
  /\ accepted = <<>>
  /\ now = 1
  /\ ops = 0
  /\ last = NoLast
  /\ v_out = NoResult
  /\ \/ /\ v_fn = "validate_uen"
        /\ v_str \in UenInputs
        /\ v_data = EmptyDict
        /\ v_names = <<>>
     \/ /\ v_fn = "validate_tax_period"
        /\ v_str \in TaxPeriodInputs
        /\ v_data = EmptyDict
        /\ v_names = <<>>
     \/ /\ v_fn = "validate_submission_status"
        /\ v_str \in StatusInputs
        /\ v_data = EmptyDict
        /\ v_names = <<>>
     \/ /\ v_fn = "validate_required_fields"
        /\ v_str = <<>>
        /\ v_names \in RequiredLists
        /\ \E S \in SUBSET SeqRange(v_names), v \in RequiredValues,
              w \in {JStr(<<"x">>), JInt(7)} :
             v_data = RequiredData(v_names, S, v, w)

Called(fn, result) ==
  /\ v_fn = fn
  /\ v_out.k = "none"
  /\ v_out' = result
  /\ UNCHANGED <<v_fn, v_str, v_data, v_names>>
  /\ UNCHANGED <<store_vars, threads>>

CallValidateUen == Called("validate_uen", validate_uen(JStr(v_str)))

CallValidateTaxPeriod == Called("validate_tax_period", validate_tax_period(JStr(v_str)))

CallValidateSubmissionStatus ==
  Called("validate_submission_status", validate_submission_status(JStr(v_str)))

CallValidateRequiredFields ==
  Called("validate_required_fields", validate_required_fields(v_data, v_names))

NextValidator ==
  \/ CallValidateUen
  \/ CallValidateTaxPeriod
  \/ CallValidateSubmissionStatus
  \/ CallValidateRequiredFields

SpecValidator == InitValidator /\ [][NextValidator]_vars

(***************************************************************************)
(* Properties.                                                             *)
(***************************************************************************)
CallbackOps == Kinds

\* the entry appended last
Newest(logs) == logs[Len(logs)]

\* C1: with requests handled one at a time, the log holds at most MAX_LOGS
\* entries in every state between two requests.
C1_AtMostMaxLogs == Len(callback_logs) <= MAX_LOGS

\* a request was logged into a full log, which is still full
C1_Witness ==
  /\ last.logged
  /\ last.before = MAX_LOGS
  /\ Len(callback_logs) = MAX_LOGS

\* C2: the log is exactly the last min(n, MAX_LOGS) of the n entries accepted
\* since the last clear, in the order they were accepted; after MAX_LOGS + 1
\* appends the first entry is gone and the second is at index 0.
C2_StrictFifo ==
  LET n == Len(accepted)
      kept == Min(n, MAX_LOGS)
  IN  /\ callback_logs = SubSeq(accepted, n - kept + 1, n)
      /\ n = MAX_LOGS + 1 =>
           /\ callback_logs[1] = accepted[2]
           /\ \A i \in 1..Len(callback_logs) : callback_logs[i] # accepted[1]

\* MAX_LOGS + 1 entries were accepted, the last one by a callback handler
C2_Witness ==
  /\ Len(accepted) = MAX_LOGS + 1
  /\ last.logged
  /\ last.op \in CallbackOps
  /\ Newest(callback_logs).endpoint # callback_logs[1].endpoint

\* C3: a callback request either is answered 200 and appends exactly one
\* entry for it, or is answered 400 or 500 and leaves the log as it was.
C3_NoPartialSuccess ==
  [][last'.op \in CallbackOps /\ ops' = ops + 1 =>
       \/ /\ last'.resp.code = 200
          /\ accepted' = Append(accepted, Newest(accepted'))
          /\ Newest(callback_logs') = Newest(accepted')
          /\ Newest(accepted').requestId = last'.resp.requestId
       \/ /\ last'.resp.code \in {400, 500}
          /\ callback_logs' = callback_logs
          /\ accepted' = accepted]_vars

\* C4: a callback request answered 400 leaves the log unchanged: the same
\* entries in the same order.
C4_RejectedLeavesLog ==
  [][last'.op \in CallbackOps /\ ops' = ops + 1 /\ last'.resp.code = 400 =>
       /\ callback_logs' = callback_logs
       /\ accepted' = accepted]_vars

\* a request with a negative optional amount was answered 400 on a log that
\* is not empty
C4_Witness ==
  /\ last.op = "commission"
  /\ last.resp.code = 400
  /\ last.resp.message.text = "totalCommissionAmount must be non-negative"
  /\ last.before = MAX_LOGS - 1
  /\ Len(callback_logs) = MAX_LOGS - 1

IsStr(v) == v.t = "str"

\* exactly 8 or 9 ASCII digits and one letter A-Z
StrictUen(s) ==
  /\ Len(s) \in {9, 10}
  /\ \A i \in 1..(Len(s) - 1) : s[i] \in AsciiDigits
  /\ s[Len(s)] \in AsciiUpper

\* exactly 6 ASCII digits, year 2000..2100, month 1..12
StrictTaxPeriod(s) ==
  /\ Len(s) = 6
  /\ \A i \in 1..6 : s[i] \in AsciiDigits
  /\ DigitsValue(SubSeq(s, 1, 4)) >= 2000
  /\ DigitsValue(SubSeq(s, 1, 4)) <= 2100
  /\ DigitsValue(SubSeq(s, 5, 6)) >= 1
  /\ DigitsValue(SubSeq(s, 5, 6)) <= 12

\* the GST payloads of C5: the six required fields present, UEN, form type
\* and tax period valid, the status one of the six in any case
WellFormedGst(req) ==
  /\ req.is_json
  /\ req.body = "object"
  /\ \A i \in 1..Len(gst_required) : Truthy(req.data[gst_required[i]])
  /\ IsStr(req.data["companyUEN"]) /\ StrictUen(req.data["companyUEN"].s)
  /\ IsStr(req.data["formType"])
  /\ PyUpper(req.data["formType"].s) \in { <<"F","5">>, <<"F","8">> }
  /\ IsStr(req.data["taxPeriod"]) /\ StrictTaxPeriod(req.data["taxPeriod"].s)
  /\ IsStr(req.data["submissionStatus"])
  /\ PyUpper(req.data["submissionStatus"].s) \in allowed_statuses

\* totalTaxAmount is not given, or is a non-negative number a float can hold
AmountOk(v) == v.t \in {"absent", "null"} \/ (v.t \in {"int", "float"} /\ v.n >= 0)

\* the errors value that the FAILED branch cannot join
UnjoinableErrors(req) ==
  /\ PyUpper(req.data["submissionStatus"].s) = FAILED
  /\ Truthy(GetErrors(req.data))
  /\ ~Joinable(GetErrors(req.data))

StrictlyMissing(v) == v.t \in {"absent", "null"} \/ (v.t = "str" /\ v.s = <<>>)

RECURSIVE StrictlyMissingOf(_, _)
StrictlyMissingOf(data, names) ==
  IF names = <<>> THEN <<>>
  ELSE IF StrictlyMissing(data[Head(names)])
       THEN <<Head(names)>> \o StrictlyMissingOf(data, Tail(names))
       ELSE StrictlyMissingOf(data, Tail(names))

\* C6: validate_required_fields fails exactly when a field of names is
\* absent, null or the empty string, and then lists exactly those fields in
\* the order of names; a field with any other value is not reported.
C6_MissingExactly ==
  v_fn = "validate_required_fields" /\ v_out.k # "none" =>
    LET missing == StrictlyMissingOf(v_data, v_names)
    IN  /\ v_out.k = "verr" <=> missing # <<>>
        /\ v_out.k = "verr" => v_out.m = Msg("Missing required fields: ", missing)

\* C7: validate_uen accepts exactly the strings of 8 or 9 ASCII digits and
\* one upper-case letter, nothing else, and returns them unchanged.
C7_UenExactly ==
  v_fn = "validate_uen" /\ v_out.k # "none" =>
    /\ v_out.k = "ok" <=> StrictUen(v_str)
    /\ v_out.k = "ok" => v_out.v = JStr(v_str)

\* C8: validate_tax_period accepts exactly the strings of 6 ASCII digits with
\* year in 2000..2100 and month in 1..12, and returns them unchanged.
C8_TaxPeriodExactly ==
  v_fn = "validate_tax_period" /\ v_out.k # "none" =>
    /\ v_out.k = "ok" <=> StrictTaxPeriod(v_str)
    /\ v_out.k = "ok" => v_out.v = JStr(v_str)

\* the required fields of a handler
RequiredOf(kind) ==
  CASE kind = "gst" -> gst_required
    [] kind = "form_cs" -> form_cs_required
    [] kind = "commission" -> commission_required
    [] kind = "donation" -> donation_required
    [] kind = "e_stamping" -> e_stamping_required

InvalidStatusText ==
  "Invalid status. Must be one of: SUCCESS, FAILED, PROCESSING, PENDING, REJECTED, CANCELLED"

\* a callback request that reached validate_submission_status with a str
StatusChecked ==
  /\ last.op \in CallbackOps
  /\ last.req.is_json
  /\ last.req.body = "object"
  /\ \A i \in 1..Len(RequiredOf(last.op)) : Truthy(last.req.data[RequiredOf(last.op)[i]])
  /\ IsStr(last.req.data["submissionStatus"])

\* C9: a non-empty status string is accepted if and only if its upper-cased
\* form is one of the six; the entry and its callback_data hold the
\* upper-cased form, the message is chosen by it, and normalising the
\* normalised value gives it back.
C9_StatusUpperCased ==
  StatusChecked =>
    LET given == last.req.data["submissionStatus"].s
        upper == PyUpper(given)
        rejected == /\ last.resp.code = 400
                    /\ last.resp.message.text = InvalidStatusText
    IN  /\ rejected <=> upper \notin allowed_statuses
        /\ rejected => ~last.logged
        /\ last.logged =>
             /\ Newest(callback_logs).status = JStr(upper)
             /\ Newest(callback_logs).callback_data["submissionStatus"] = JStr(upper)
             /\ validate_submission_status(Newest(callback_logs).status)
                  = Ok(Newest(callback_logs).status)
        /\ last.resp.code = 200 =>
             /\ upper = SUCCESS => last.resp.message.arg = <<>>
             /\ upper = FAILED => last.resp.message.arg = <<>>
             /\ upper \notin {SUCCESS, FAILED} => last.resp.message.arg = PyLower(upper)

\* a status given in mixed case was accepted, stored in upper case and
\* answered with the message of its lower-case form
C9_Witness ==
  /\ StatusChecked
  /\ last.req.data["submissionStatus"].s = <<"p","E","n","d","i","n","g">>
  /\ last.resp.code = 200
  /\ last.logged
  /\ Newest(callback_logs).status = JStr(<<"P","E","N","D","I","N","G">>)
  /\ last.resp.message.arg = <<"p","e","n","d","i","n","g">>

\* C10: GET /logs returns at most 50 entries for every integer limit, and at
\* most 10 when no limit is given.
C10_AtMostFifty ==
  last.op = "get_logs" =>
    /\ Len(last.resp.logs) <= 50
    /\ ~last.req.limit.given => Len(last.resp.logs) <= 10

\* C11: DELETE /logs after N appends since the previous clear reports N
\* records removed and leaves the log empty, and the GET /logs that follows
\* returns no entry and total_callbacks = 0.
C11_ClearReportsAppends ==
  [][/\ last'.op = "clear_logs" =>
          /\ last'.resp.logs_cleared = Len(accepted)
          /\ callback_logs' = <<>>
     /\ last.op = "clear_logs" /\ last'.op = "get_logs" =>
          /\ last'.resp.total_callbacks = 0
          /\ last'.resp.returned_logs = 0
          /\ last'.resp.logs = <<>>]_vars

\* C11 as the code has it: the count reported is the number of entries the
\* log held, min(N, MAX_LOGS), all of which are removed.
C11_ClearReportsStored ==
  [][/\ last'.op = "clear_logs" =>
          /\ last'.resp.logs_cleared = Len(callback_logs)
          /\ last'.resp.logs_cleared = Min(Len(accepted), MAX_LOGS)
          /\ callback_logs' = <<>>
          /\ accepted' = <<>>
     /\ last.op = "clear_logs" /\ last'.op = "get_logs" =>
          /\ last'.resp.total_callbacks = 0
          /\ last'.resp.returned_logs = 0
          /\ last'.resp.logs = <<>>]_vars

\* the third request is a GET /logs of the log that held MAX_LOGS entries at
\* start and was cleared since
C11_Witness ==
  /\ last.op = "get_logs"
  /\ last.resp.total_callbacks = 0
  /\ callback_logs = <<>>
  /\ ops = 3
  /\ now = MAX_LOGS + 4
  /\ last.before = 0

\* a thread that runs clear_logs, now or earlier
Clearing(t) == threads[t].pc = "clear" \/ (threads[t].pc = "done" /\ threads[t].request_id = 0)

\* C12: while accepted callbacks run concurrently and nothing clears the log,
\* the log never holds more than MAX_LOGS entries, in the states between a
\* request's append and its eviction too, and below MAX_LOGS accepted entries
\* every accepted entry is in the log
C12_ConcurrentAppendsBounded ==
  (\A t \in Threads : ~Clearing(t)) =>
    /\ Len(callback_logs) <= MAX_LOGS
    /\ Len(accepted) < MAX_LOGS => callback_logs = accepted

\* C13: a read of /health, /logs or /logs/stats that runs while callbacks
\* append to a full log (and nothing clears it) sees MAX_LOGS entries, never
\* the MAX_LOGS + 1 between an append and its eviction and never MAX_LOGS - 1
C13_ReadersSeeWholeAppends ==
  (\A t \in Threads : ~Clearing(t)) =>
    /\ last.op = "health" => last.resp.logs_count = MAX_LOGS
    /\ last.op \in {"get_logs", "stats"} => last.resp.total_callbacks = MAX_LOGS

\* C14: a clear and the callbacks that overlap it behave as in one of their
\* serial orders: every finished request answered 200 (no eviction failed on
\* an emptied log), every finished clear reports the number of entries it
\* removed, which on the full log is MAX_LOGS, and once a clear is done and no
\* callback is inside log_callback the log holds exactly the entries appended
\* after the clear (no eviction removed one of them)
C14_ClearAndCallbackSerial ==
  /\ \A t \in Threads : threads[t].pc = "done" => threads[t].code = 200
  /\ \A t \in Threads :
       threads[t].pc = "done" /\ Clearing(t) =>
         /\ threads[t].logs_cleared = threads[t].removed
         /\ threads[t].logs_cleared <= MAX_LOGS
  /\ (/\ \E t \in Threads : threads[t].pc = "done" /\ Clearing(t)
      /\ \A t \in Threads : threads[t].pc \notin {"check", "pop"})
     => callback_logs = accepted

\* C15: the entries the requests of a behaviour appended (all of accepted when
\* it is no longer than the number of requests) carry pairwise different
\* requestIds
C15_RequestIdsUnique ==
  Len(accepted) <= ops =>
    \A i, j \in DOMAIN accepted :
      i # j => accepted[i].requestId # accepted[j].requestId

\* C16: every response with an error status (400, 404, 405, 500) carries an
\* error_id
C16_ErrorsCarryErrorId ==
  last.resp.code >= 400 => last.resp.error_id \in Ids

\* what the handler of a callback route does with a request
Pipeline(kind, req) ==
  CASE kind = "gst" -> gst_return_callback(req)
    [] kind = "form_cs" -> form_cs_callback(req)
    [] kind = "commission" -> commission_records_callback(req)
    [] kind = "donation" -> donation_records_callback(req)
    [] kind = "e_stamping" -> e_stamping_callback(req)

\* C17: a 500 answer of a callback route has the fixed message 'Error
\* processing callback' and neither error_detail nor field, whatever was
\* raised; a 400 answer has message and error_detail both equal to the
\* message of the ValidationError
C17_NoDetailOnInternalFailure ==
  last.op \in CallbackOps =>
    /\ last.resp.code = 500 =>
         /\ Pipeline(last.op, last.req).k = "exc"
         /\ last.resp.message = Msg("Error processing callback", <<>>)
         /\ ~last.resp.has_error_detail
         /\ last.resp.error_detail = NoMsg
         /\ ~last.resp.has_field
    /\ last.resp.code = 400 =>
         /\ Pipeline(last.op, last.req).k = "verr"
         /\ last.resp.has_error_detail
         /\ last.resp.message = Pipeline(last.op, last.req).m
         /\ last.resp.error_detail = Pipeline(last.op, last.req).m

\* a GST callback answered 500 because joining its errors raised TypeError
C17_Witness ==
  /\ last.op = "gst"
  /\ last.resp.code = 500
  /\ Pipeline("gst", last.req).m = Msg("TypeError", <<>>)
  /\ last.resp.message = Msg("Error processing callback", <<>>)

\* the kind of callback a type argument of /test/validate-callback names
KindOf(type) == CHOOSE kind \in Kinds : TypeOf[kind] = type

\* C18: POST /test/validate-callback?type=K appends nothing and answers
\* 'valid' exactly when the K callback route would accept the payload (its
\* validation passes and it calls log_callback), 'invalid' with 400 otherwise
C18_ValidateMatchesPipeline ==
  last.op = "validate" /\ (\E kind \in Kinds : TypeOf[kind] = last.req.type) =>
    /\ ~last.logged
    /\ Len(callback_logs) = last.before
    /\ last.resp.status = "valid" <=> Pipeline(KindOf(last.req.type), last.req).logged
    /\ last.resp.status # "valid" => last.resp.status = "invalid" /\ last.resp.code = 400

\* C19: GET /logs?limit=n with 1 <= n <= 50 answers 200 with the
\* min(n, count) entries appended last, oldest of them first, returned_logs
\* that number and total_callbacks the count of the log; nothing on an empty log
C19_WindowOfMostRecent ==
  (/\ last.op = "get_logs"
   /\ last.req.limit.given /\ last.req.limit.valid
   /\ last.req.limit.n \in 1..50) =>
    /\ last.resp.code = 200
    /\ last.resp.total_callbacks = Len(callback_logs)
    /\ last.resp.returned_logs = Min(last.req.limit.n, Len(callback_logs))
    /\ Len(last.resp.logs) = last.resp.returned_logs
    /\ \A i \in 1..Len(last.resp.logs) :
         last.resp.logs[i] = accepted[Len(accepted) - Len(last.resp.logs) + i]
    /\ callback_logs = <<>> => last.resp.logs = <<>>

\* GET /logs?limit=10 on a log filled to MAX_LOGS by the request before it
C19_Witness ==
  /\ last.op = "get_logs"
  /\ last.req.limit.given /\ last.req.limit.valid /\ last.req.limit.n = 10
  /\ Len(callback_logs) = MAX_LOGS
  /\ ops = 2
  /\ last.resp.returned_logs = 10
  /\ last.resp.logs[10] = Newest(accepted)

\* C20: GET /logs/stats answers with the aggregate for every log, the empty
\* one too: a count for each status and each endpoint tag met, equal to the
\* number of entries carrying it, the timestamp of the entry appended last
\* (absent on an empty log) and the last min(10, count) entries condensed, in
\* insertion order
C20_StatsAggregate ==
  last.op = "stats" =>
    /\ last.resp.has_stats
    /\ last.resp.total_callbacks = Len(callback_logs)
    /\ DOMAIN last.resp.status_breakdown = {callback_logs[i].status : i \in DOMAIN callback_logs}
    /\ \A k \in DOMAIN last.resp.status_breakdown :
         last.resp.status_breakdown[k] =
           Cardinality({i \in DOMAIN callback_logs : callback_logs[i].status = k})
    /\ DOMAIN last.resp.endpoint_breakdown =
         {callback_logs[i].endpoint : i \in DOMAIN callback_logs}
    /\ \A k \in DOMAIN last.resp.endpoint_breakdown :
         last.resp.endpoint_breakdown[k] =
           Cardinality({i \in DOMAIN callback_logs : callback_logs[i].endpoint = k})
    /\ last.resp.latest_callback =
         IF callback_logs = <<>> THEN 0 ELSE Newest(callback_logs).timestamp
    /\ Len(last.resp.recent_activity) = Min(10, Len(callback_logs))
    /\ \A i \in 1..Len(last.resp.recent_activity) :
         last.resp.recent_activity[i].timestamp =
           callback_logs[Len(callback_logs) - Len(last.resp.recent_activity) + i].timestamp

\* the checks of the GST route in the order of the claim, each on its own:
\* JSON body (and a body that is an object), required fields, submissionStatus,
\* formType, companyUEN, taxPeriod, totalTaxAmount
GstChecks(req) ==
  <<validate_json_payload(req),
    IF req.body # "object" THEN Exc("AttributeError") ELSE Ok(Null),
    validate_required_fields(req.data, gst_required),
    validate_submission_status(req.data["submissionStatus"]),
    validate_form_type(req.data["formType"]),
    validate_uen(req.data["companyUEN"]),
    validate_tax_period(req.data["taxPeriod"]),
    optional_float(Get(req.data, "totalTaxAmount"),
                   "totalTaxAmount must be non-negative",
                   "totalTaxAmount must be a valid number")>>

\* C21: a GST payload (a JSON object) that fails a check is answered 400
\* with the validation message of the earliest failing check, in the order
\* JSON body, required fields, submissionStatus, formType, companyUEN,
\* taxPeriod, totalTaxAmount
C21_EarliestRuleMessage ==
  (/\ last.op = "gst"
   /\ last.req.body = "object"
   /\ FirstFailure(GstChecks(last.req)).k # "ok") =>
    /\ last.resp.code = 400
    /\ FirstFailure(GstChecks(last.req)).k = "verr"
    /\ last.resp.message = FirstFailure(GstChecks(last.req)).m

\* what does hold of the order: the GST route answers by the earliest failing
\* check only, 400 with that check's message when it raised ValidationError,
\* 500 with the generic message when it raised anything else, and it logs
\* nothing in both cases; a JSON object with a missing required field gets
\* the missing-fields message
OrderOfChecksDecides ==
  last.op = "gst" =>
    /\ FirstFailure(GstChecks(last.req)).k = "verr" =>
         /\ last.resp.code = 400
         /\ last.resp.message = FirstFailure(GstChecks(last.req)).m
         /\ ~last.logged
    /\ FirstFailure(GstChecks(last.req)).k = "exc" =>
         /\ last.resp.code = 500
         /\ last.resp.message = Msg("Error processing callback", <<>>)
         /\ ~last.logged
    /\ FirstFailure(GstChecks(last.req)).k = "ok" => last.logged
    /\ (/\ validate_json_payload(last.req).k = "ok"
        /\ last.req.body = "object"
        /\ SelectMissing(last.req.data, gst_required) # <<>>)
       => /\ last.resp.code = 400
          /\ last.resp.message =
               Msg("Missing required fields: ", SelectMissing(last.req.data, gst_required))

\* a GST payload with an invalid submissionStatus and an invalid formType,
\* answered with the message of the status only
C21_TwoViolations ==
  /\ last.op = "gst"
  /\ last.req.data["submissionStatus"] = JStr(<<"x">>)
  /\ last.req.data["formType"] = JStr(<<"x">>)
  /\ last.resp.code = 400
  /\ last.resp.message = validate_submission_status(JStr(<<"x">>)).m
  /\ last.resp.message # validate_form_type(JStr(<<"x">>)).m

\* the route that writes entries with an endpoint tag (the mock endpoints
\* write the tags of the GST and Form CS routes with -TEST added)
KindOfEndpoint(endpoint) ==
  CASE endpoint \in {"GST-RETURN", "GST-RETURN-TEST"} -> "gst"
    [] endpoint \in {"FORM-CS", "FORM-CS-TEST"} -> "form_cs"
    [] endpoint = "COMMISSION-RECORDS" -> "commission"
    [] endpoint = "DONATION-RECORDS" -> "donation"
    [] endpoint = "E-STAMPING" -> "e_stamping"

\* the payload of an entry passes the validation of its route
PassesValidation(entry) ==
  Pipeline(KindOfEndpoint(entry.endpoint),
           Post(TRUE, "object", DictOf(entry.callback_data))).logged

\* C22: in every step the log either stays as it is (no entry changes), or
\* gains at its end one entry whose payload passes validation, evicting the
\* oldest only if the log then exceeds MAX_LOGS, or loses its oldest entry by
\* an eviction from a log that exceeds MAX_LOGS, or is emptied by DELETE /logs
C22_RecordLifecycle ==
  [][ \/ callback_logs' = callback_logs
      \/ /\ Len(accepted') = Len(accepted) + 1
         /\ accepted' = Append(accepted, Newest(accepted'))
         /\ PassesValidation(Newest(accepted'))
         /\ \/ callback_logs' = Append(callback_logs, Newest(accepted'))
            \/ /\ Len(callback_logs) + 1 > MAX_LOGS
               /\ callback_logs' = Tail(Append(callback_logs, Newest(accepted')))
      \/ /\ Len(callback_logs) > MAX_LOGS
         /\ callback_logs' = Tail(callback_logs)
      \/ /\ last'.op = "clear_logs"
         /\ callback_logs' = <<>>
    ]_vars

\* C23: in every state every entry of the log has as status one of the six
\* values of allowed_statuses, in upper case, never UNKNOWN, and the same
\* value as the submissionStatus of its own callback_data
C23_StatusCanonical ==
  \A i \in DOMAIN callback_logs :
    /\ callback_logs[i].status.t = "str"
    /\ callback_logs[i].status.s \in allowed_statuses
    /\ callback_logs[i].status.s # UNKNOWN
    /\ "submissionStatus" \in DOMAIN callback_logs[i].callback_data
    /\ callback_logs[i].status = callback_logs[i].callback_data["submissionStatus"]

\* a Form CS callback sent with the status in lower case on a full log: the
\* entry it appended carries the upper-case status, and so does its payload
C23_Witness ==
  /\ last.op = "form_cs"
  /\ last.logged
  /\ last.before = MAX_LOGS
  /\ last.req.data["submissionStatus"] = JStr(<<"r","e","j","e","c","t","e","d">>)
  /\ Newest(callback_logs).status = JStr(<<"R","E","J","E","C","T","E","D">>)
  /\ Newest(callback_logs).callback_data["submissionStatus"] = Newest(callback_logs).status

====
